---- MODULE Spec2Model ----
(***************************************************************************)
(* A model of src/local/sandbox.py: the streaming text-to-speech pipeline  *)
(* (text_chunker, send_text, listen, stream), the playback process         *)
(* singleton, the alignment function get_remaining_chars_to_send and the   *)
(* retry loop of text_to_speech_input_streaming, run beside the producer   *)
(* chat_completion as main() runs them.                                    *)
(*                                                                         *)
(* A string is a sequence of one-character strings.  asyncio.gather is     *)
(* modelled as Python defines it: the first exception of a child is        *)
(* propagated to the awaiting coroutine, and the other children are NOT    *)
(* cancelled; they keep running on the objects they were started with.     *)
(***************************************************************************)
EXTENDS Integers, Sequences, FiniteSets, TLC

\* ------------------------------------------------------------------ bounds
\* The number of connection attempts one utterance may make in the model
\* (the code's retry loop is unbounded).
MaxAttempts == 2

Attempts == 1..MaxAttempts

\* ------------------------------------------------------------- constants
\* displacement_tolerance of get_remaining_chars_to_send
displacement_tolerance == 2

\* The sentinel `None` travelling through the text and chunked-text queues.
None == <<"<None>">>

\* The sentinel `None` travelling through the audio queue (audio chunks are
\* pairs <<attempt, n>>).
AudioNone == <<>>

\* The text of the priming frame of the handshake, which the provider's
\* alignment echoes as one leading character.
PrimingText == <<" ">>

\* --------------------------------------------------------- pure helpers
RECURSIVE Flatten(_)
Flatten(ss) == IF ss = <<>> THEN <<>> ELSE Head(ss) \o Flatten(Tail(ss))

IsPrefix(s, t) == Len(s) <= Len(t) /\ SubSeq(t, 1, Len(s)) = s

Drop(s, n) == SubSeq(s, n + 1, Len(s))

\* ------------------------------------------------------------ text_chunker
\* The body of the `for char in text` loop, from character k of `text` on:
\* a space emits the non-empty buffer plus one space, any other character
\* is appended to the buffer.  The result is the new buffer and the units
\* put on the output queue.
RECURSIVE ChunkFrom(_, _, _, _)
ChunkFrom(text, k, buffer, out) ==
    IF k > Len(text) THEN [buffer |-> buffer, out |-> out]
    ELSE IF text[k] = " "
         THEN IF buffer # <<>>
              THEN ChunkFrom(text, k + 1, <<>>, Append(out, buffer \o <<" ">>))
              ELSE ChunkFrom(text, k + 1, buffer, out)
         ELSE ChunkFrom(text, k + 1, Append(buffer, text[k]), out)

\* A chunker whose buffer starts empty at every fragment: the variant C32
\* excludes.
ChunkFragment_fresh(buffer, text) == ChunkFrom(text, 1, <<>>, <<>>)

ChunkFragment(buffer, text) == ChunkFrom(text, 1, buffer, <<>>)

\* A chunker that flushes at the end marker whether or not a word is
\* buffered: the variant C30 excludes.
ChunkFlush_always(buffer) == <<buffer \o <<" ">>, None>>

\* A chunker that drops the buffered word at the end marker: the variant C14
\* excludes.
ChunkFlush_drop(buffer) == <<None>>

\* A chunker that flushes the buffered word without the trailing space: the
\* variant C15 excludes.
ChunkFlush_nospace(buffer) ==
    IF buffer # <<>> THEN <<buffer, None>> ELSE <<None>>

\* What the chunker puts when it reads the end-of-input marker.
ChunkFlush(buffer) ==
    IF buffer # <<>> THEN <<buffer \o <<" ">>, None>> ELSE <<None>>

\* The TextUnits the chunker emits for one whole text followed by the marker.
UnitsOf(text) ==
    LET r == ChunkFragment(<<>>, text)
        f == ChunkFlush(r.buffer)
    IN r.out \o SubSeq(f, 1, Len(f) - 1)

\* ---------------------------------------------- get_remaining_chars_to_send
\* A normalisation that substitutes nothing: the variant C18 excludes.
custom_decode_identity(char) == char

\* A substitution table that maps a character to one character only, the
\* first of its replacement: the variant C31 excludes.
custom_decode_firstchar(char) ==
    CASE char = "u2018" -> "'"
      [] char = "u2019" -> "'"
      [] char = "u201C" -> "\""
      [] char = "u201D" -> "\""
      [] char = "u2013" -> "-"
      [] char = "u2014" -> "-"
      [] char = "u2026" -> "."
      [] char = "u2022" -> "*"
      [] char = "u00A3" -> "G"
      [] char = "u20AC" -> "E"
      [] char = "u00D7" -> "x"
      [] char = "u00F7" -> "/"
      [] OTHER -> char

\* A substitution table without the entry of the right single quotation
\* mark: the variant C25 excludes.
custom_decode_leftonly(char) ==
    CASE char = "u2018" -> "'"
      [] char = "u201C" -> "\""
      [] char = "u201D" -> "\""
      [] char = "u2013" -> "-"
      [] char = "u2014" -> "-"
      [] char = "u2026" -> "..."
      [] char = "u2022" -> "*"
      [] char = "u00A3" -> "GBP"
      [] char = "u20AC" -> "EUR"
      [] char = "u00D7" -> "x"
      [] char = "u00F7" -> "/"
      [] OTHER -> char

\* A character outside ASCII is written by its code point: "u2019" is the
\* right single quotation mark.
custom_decode(char) ==
    CASE char = "u2018" -> "'"
      [] char = "u2019" -> "'"
      [] char = "u201C" -> "\""
      [] char = "u201D" -> "\""
      [] char = "u2013" -> "-"
      [] char = "u2014" -> "-"
      [] char = "u2026" -> "..."
      [] char = "u2022" -> "*"
      [] char = "u00A3" -> "GBP"
      [] char = "u20AC" -> "EUR"
      [] char = "u00D7" -> "x"
      [] char = "u00F7" -> "/"
      [] OTHER -> char

chars_to_send_formatted(sent) == [k \in 1..Len(sent) |-> custom_decode(sent[k])]

\* chars_received[1:]
chars_received_formatted(received) == Drop(received, 1)

\* An index() called without its start argument, which finds the first
\* occurrence in the whole list: the variant C24 excludes.
IndexFrom_fromstart(recv, char, j) ==
    LET S == {m \in 0..(Len(recv) - 1) : recv[m + 1] = char}
    IN IF S = {} THEN -1 ELSE CHOOSE m \in S : \A n \in S : m <= n

\* list.index(char, j) with 0-based j: the 0-based index of the first
\* element equal to char at or after j, or -1 (Python raises ValueError).
RECURSIVE IndexFrom(_, _, _)
IndexFrom(recv, char, j) ==
    IF j >= Len(recv) THEN -1
    ELSE IF recv[j + 1] = char THEN j ELSE IndexFrom(recv, char, j + 1)

\* A tolerance check that accepts a match at any distance: the variant C21
\* excludes.
WithinTolerance_any(m, j) == TRUE

\* Line 317: the match found at m is within the tolerance of the cursor j.
WithinTolerance(m, j) == m - j <= displacement_tolerance

\* A scan that treats the line break as any other character: the variant
\* C22 excludes.
IsLineBreak_never(char) == FALSE

\* Line 303: the characters the loop skips.
IsLineBreak(char) == char = "\n"

\* The for loop over i (0-based) with cursor j (0-based).  The result says
\* how the loop ended: "point" (continue_point = i), "all" (the loop ran to
\* the end, continue_point is None) or "raise" (the tolerance was exceeded).
RECURSIVE Scan(_, _, _, _)
Scan(fmt, recv, i, j) ==
    IF i >= Len(fmt) THEN [kind |-> "all", i |-> i, j |-> j]
    ELSE IF IsLineBreak(fmt[i + 1]) THEN Scan(fmt, recv, i + 1, j)
    ELSE IF j < Len(recv)
         THEN LET m == IndexFrom(recv, fmt[i + 1], j)
              IN IF m = -1 THEN [kind |-> "point", i |-> i, j |-> j]
                 ELSE IF m = j THEN Scan(fmt, recv, i + 1, j + 1)
                 ELSE IF WithinTolerance(m, j)
                      THEN Scan(fmt, recv, i + 1, m + 1)
                      ELSE [kind |-> "raise", i |-> i, j |-> j]
         ELSE [kind |-> "point", i |-> i, j |-> j]

AlignScan(sent, received) ==
    Scan(chars_to_send_formatted(sent), chars_received_formatted(received), 0, 0)

\* A function that returns the suffix of the normalised text: the variant
\* C27 excludes.
get_remaining_chars_to_send_formatted(sent, received) ==
    LET r == AlignScan(sent, received)
    IN IF r.kind = "all" THEN <<>> ELSE Drop(chars_to_send_formatted(sent), r.i)

\* A function that resumes one character behind the continue point: the
\* variant C23 excludes.
get_remaining_chars_to_send_next(sent, received) ==
    LET r == AlignScan(sent, received)
    IN IF r.kind = "all" THEN <<>> ELSE Drop(sent, r.i + 1)

\* A function that returns all of sent whatever was confirmed: the variant
\* C19 excludes.
get_remaining_chars_to_send_all(sent, received) == sent

\* The value returned when the function returns normally.
get_remaining_chars_to_send(sent, received) ==
    LET r == AlignScan(sent, received)
    IN IF r.kind = "all" THEN <<>> ELSE Drop(sent, r.i)


\* ------------------------------------------------------------------ state
\* The text producers of the model: each is the sequence of non-empty
\* delta.content fragments one chat completion streams.  The first splits a
\* word over two fragments, the others begin with a space.
Scripts ==
    { << <<"a">>, <<"b">> >>,
      << <<" ", "a">> >>,
      << <<" ", "a", "a", "a">> >> }

VARIABLES
    \* chat_completion
    script,              \* the fragments the completion will stream
    pidx,                \* the next fragment; Len(script)+1: the end of the response
    \* the heap: queue and list objects, by identity
    textQ,               \* asyncio.Queue objects used as text queues
    chunkQ,              \* asyncio.Queue objects used as chunked-text queues
    audioQ,              \* asyncio.Queue objects used as audio queues
    charList,            \* list objects used as chars_to_send
    recvList,            \* list objects used as chars_received
    \* text_to_speech_input_streaming: its locals and its position
    pc,                  \* "connect", "gather", "except", "done"
    status,              \* how the call ended
    cur,                 \* the number of the current pass of the while loop
    text_queue, chunked_text_queue, audio_queue, chars_to_send, chars_received,
    elevenlabs_websocket,  \* 0: the local is unbound
    exc,                 \* the exception the try body raised, "none" if none
    outcome,             \* per attempt: how its try body ended
    \* the provider connections, one per attempt
    ws,                  \* "none", "open", "closed"
    wsIn,                \* the text frames the provider received
    voiced,              \* how many of them it has answered
    wsOut,               \* its frames not yet read by recv()
    \* the stage tasks of each attempt
    task,                \* per attempt, per stage: "none", "init", "run", "done", "cc", "fatal"
    buffer,              \* text_chunker's buffer
    bind,                \* the objects the stages of the attempt were started with
    \* the playback process
    mpv_installed,       \* shutil.which("mpv") is not None
    process,             \* MPVProcessSingleton().process: 0 is None
    live,                \* the processes whose stdin is open
    spawned,             \* how many processes were started
    mpv_process,         \* stream's local of that name, per attempt
    written,             \* the chunks written to a playback process, in order
    \* history
    resubmit             \* per attempt: what a resync is expected to submit

vars == << script, pidx, textQ, chunkQ, audioQ, charList, recvList, pc, status,
           cur, text_queue, chunked_text_queue, audio_queue, chars_to_send,
           chars_received, elevenlabs_websocket, exc, outcome, ws, wsIn, voiced,
           wsOut, task, buffer, bind, mpv_installed, process, live, spawned,
           mpv_process, written, resubmit >>

Stages == {"text_chunker", "send_text", "listen", "stream"}

NoTasks == [s \in Stages |-> "none"]

Running(a, s) == task[a][s] \in {"init", "run"}

\* main(), lines 540-545: a fresh text queue and an empty chars_to_send are
\* handed to both coroutines; text_to_speech_input_streaming, lines 382-384.
Init ==
    /\ script \in Scripts
    /\ pidx = 1
    /\ textQ = [q \in Attempts |-> <<>>]
    /\ chunkQ = [q \in Attempts |-> <<>>]
    /\ audioQ = [q \in Attempts |-> <<>>]
    /\ charList = [l \in Attempts |-> <<>>]
    /\ recvList = [l \in Attempts |-> <<>>]
    /\ pc = "connect"
    /\ status = "running"
    /\ cur = 1
    /\ text_queue = 1
    /\ chunked_text_queue = 1
    /\ audio_queue = 1
    /\ chars_to_send = 1
    /\ chars_received = 1
    /\ elevenlabs_websocket = 0
    /\ exc = "none"
    /\ outcome = [a \in Attempts |-> "none"]
    /\ ws = [a \in Attempts |-> "none"]
    /\ wsIn = [a \in Attempts |-> <<>>]
    /\ voiced = [a \in Attempts |-> 0]
    /\ wsOut = [a \in Attempts |-> <<>>]
    /\ task = [a \in Attempts |-> NoTasks]
    /\ buffer = [a \in Attempts |-> <<>>]
    /\ bind = [a \in Attempts |-> [tin |-> 0, cq |-> 0, aq |-> 0, cr |-> 0]]
    /\ mpv_installed \in BOOLEAN
    /\ process = 0
    /\ live = {}
    /\ spawned = 0
    /\ mpv_process = [a \in Attempts |-> 0]
    /\ written = <<>>
    /\ resubmit = [a \in Attempts |-> [pre |-> FALSE, expect |-> <<>>]]


\* An exception that escapes text_to_speech_input_streaming escapes main()'s
\* gather and asyncio.run(main()), lines 542-555: the program ends and every
\* task with it.
Alive == status \notin {"alignment_error", "unbound_error"}

\* ---------------------------------------------------------- chat_completion
\* Lines 445-454: a non-empty fragment is put on the queue main() created and
\* its characters are appended to the list main() created.
Produce ==
    /\ Alive
    /\ pidx <= Len(script)
    /\ textQ' = [textQ EXCEPT ![1] = Append(@, script[pidx])]
    /\ charList' = [charList EXCEPT ![1] = @ \o script[pidx]]
    /\ pidx' = pidx + 1
    /\ UNCHANGED << script, chunkQ, audioQ, recvList, pc, status, cur, text_queue,
                    chunked_text_queue, audio_queue, chars_to_send, chars_received,
                    elevenlabs_websocket, exc, outcome, ws, wsIn, voiced, wsOut,
                    task, buffer, bind, mpv_installed, process, live, spawned,
                    mpv_process, written, resubmit >>

\* Lines 459-469: the end of the response puts the sentinel and returns.
ProduceEnd ==
    /\ Alive
    /\ pidx = Len(script) + 1
    /\ textQ' = [textQ EXCEPT ![1] = Append(@, None)]
    /\ pidx' = pidx + 1
    /\ UNCHANGED << script, chunkQ, audioQ, charList, recvList, pc, status, cur,
                    text_queue, chunked_text_queue, audio_queue, chars_to_send,
                    chars_received, elevenlabs_websocket, exc, outcome, ws, wsIn,
                    voiced, wsOut, task, buffer, bind, mpv_installed, process, live,
                    spawned, mpv_process, written, resubmit >>

ProducerDone == pidx = Len(script) + 2

\* ------------------------------------------------------------ stage tasks
\* What gather does with a child's exception: the first one raised while the
\* orchestrator awaits this attempt's gather is the one it receives.
Propagate(a, kind) ==
    IF pc = "gather" /\ cur = a /\ exc = "none" THEN kind ELSE exc

\* text_chunker, lines 143-163: one pass of its while loop.  queue.put on an
\* unbounded queue never suspends, so the pass is one step.
Chunker(a) ==
    /\ Alive
    /\ task[a]["text_chunker"] = "run"
    /\ textQ[bind[a].tin] # <<>>
    /\ LET text == Head(textQ[bind[a].tin])
       IN /\ textQ' = [textQ EXCEPT ![bind[a].tin] = Tail(@)]
          /\ IF text = None
             THEN /\ chunkQ' = [chunkQ EXCEPT ![bind[a].cq] = @ \o ChunkFlush(buffer[a])]
                  /\ buffer' = [buffer EXCEPT ![a] = <<>>]
                  /\ task' = [task EXCEPT ![a]["text_chunker"] = "done"]
             ELSE LET r == ChunkFragment(buffer[a], text)
                  IN /\ chunkQ' = [chunkQ EXCEPT ![bind[a].cq] = @ \o r.out]
                     /\ buffer' = [buffer EXCEPT ![a] = r.buffer]
                     /\ task' = task
    /\ UNCHANGED << script, pidx, audioQ, charList, recvList, pc, status, cur,
                    text_queue, chunked_text_queue, audio_queue, chars_to_send,
                    chars_received, elevenlabs_websocket, exc, outcome, ws, wsIn,
                    voiced, wsOut, bind, mpv_installed, process, live, spawned,
                    mpv_process, written, resubmit >>

\* A text frame that forces generation: the variant C16 excludes.
TextFrame_trigger(unit) == [text |-> unit, try_trigger_generation |-> "true"]

\* The frames send_text writes, lines 180-184.
TextFrame(unit) == [text |-> unit, try_trigger_generation |-> "false"]

EosFrame == [text |-> <<>>, try_trigger_generation |-> "absent"]

\* send_text, lines 176-184: one pass of its while loop.  websocket.send
\* raises ConnectionClosed on a connection that is no longer open.
SendText(a) ==
    /\ Alive
    /\ task[a]["send_text"] = "run"
    /\ chunkQ[bind[a].cq] # <<>>
    /\ LET chunked_text == Head(chunkQ[bind[a].cq])
       IN /\ chunkQ' = [chunkQ EXCEPT ![bind[a].cq] = Tail(@)]
          /\ IF ws[a] # "open"
             THEN /\ task' = [task EXCEPT ![a]["send_text"] = "cc"]
                  /\ exc' = Propagate(a, "cc")
                  /\ wsIn' = wsIn
             ELSE IF chunked_text = None
             THEN /\ wsIn' = [wsIn EXCEPT ![a] = Append(@, EosFrame)]
                  /\ task' = [task EXCEPT ![a]["send_text"] = "done"]
                  /\ exc' = exc
             ELSE /\ wsIn' = [wsIn EXCEPT ![a] = Append(@, TextFrame(chunked_text))]
                  /\ task' = task
                  /\ exc' = exc
    /\ UNCHANGED << script, pidx, textQ, audioQ, charList, recvList, pc, status, cur,
                    text_queue, chunked_text_queue, audio_queue, chars_to_send,
                    chars_received, elevenlabs_websocket, outcome, ws, voiced, wsOut,
                    buffer, bind, mpv_installed, process, live, spawned,
                    mpv_process, written, resubmit >>

\* The provider: it answers the text frames in order.  A text frame is
\* answered by audio and the alignment of its characters (the first answer
\* of a connection starts with the echo of the priming text); the empty
\* text frame is answered by the final frame.
Answer(a, n) ==
    LET f == wsIn[a][n]
    IN IF f.text = <<>>
       THEN [audio |-> AudioNone, chars |-> <<>>, isFinal |-> TRUE]
       ELSE [audio |-> <<a, n>>,
             chars |-> (IF n = 1 THEN PrimingText ELSE <<>>) \o f.text,
             isFinal |-> FALSE]

Voice(a) ==
    /\ Alive
    /\ ws[a] = "open"
    /\ voiced[a] < Len(wsIn[a])
    /\ voiced' = [voiced EXCEPT ![a] = @ + 1]
    /\ wsOut' = [wsOut EXCEPT ![a] = Append(@, Answer(a, voiced[a] + 1))]
    /\ UNCHANGED << script, pidx, textQ, chunkQ, audioQ, charList, recvList, pc,
                    status, cur, text_queue, chunked_text_queue, audio_queue,
                    chars_to_send, chars_received, elevenlabs_websocket, exc,
                    outcome, ws, wsIn, task, buffer, bind, mpv_installed, process,
                    live, spawned, mpv_process, written, resubmit >>

\* The remote side closes the connection.
RemoteClose(a) ==
    /\ Alive
    /\ ws[a] = "open"
    /\ a < MaxAttempts
    /\ ws' = [ws EXCEPT ![a] = "closed"]
    /\ UNCHANGED << script, pidx, textQ, chunkQ, audioQ, charList, recvList, pc,
                    status, cur, text_queue, chunked_text_queue, audio_queue,
                    chars_to_send, chars_received, elevenlabs_websocket, exc,
                    outcome, wsIn, voiced, wsOut, task, buffer, bind,
                    mpv_installed, process, live, spawned, mpv_process, written,
                    resubmit >>

\* A receive loop that puts the marker before the audio of the final frame:
\* the variant C17 excludes.
AudioItems_markerfirst(data) ==
    (IF data.isFinal THEN <<AudioNone>> ELSE <<>>)
    \o (IF data.audio # AudioNone THEN <<data.audio>> ELSE <<>>)

\* listen, lines 201-204 and 212-215: what one frame makes the loop put on
\* the audio queue.  An audio value that is absent, null or empty (AudioNone
\* in a frame) puts nothing.
AudioItems(data) ==
    (IF data.audio # AudioNone THEN <<data.audio>> ELSE <<>>)
    \o (IF data.isFinal THEN <<AudioNone>> ELSE <<>>)

\* listen, lines 197-216: one pass of its while loop on a frame recv() returns.
Listen(a) ==
    /\ Alive
    /\ task[a]["listen"] = "run"
    /\ wsOut[a] # <<>>
    /\ LET data == Head(wsOut[a])
       IN /\ wsOut' = [wsOut EXCEPT ![a] = Tail(@)]
          /\ recvList' = [recvList EXCEPT ![bind[a].cr] = @ \o data.chars]
          /\ audioQ' = [audioQ EXCEPT ![bind[a].aq] = @ \o AudioItems(data)]
          /\ task' = IF data.isFinal
                     THEN [task EXCEPT ![a]["listen"] = "done"]
                     ELSE task
    /\ UNCHANGED << script, pidx, textQ, chunkQ, charList, pc, status, cur,
                    text_queue, chunked_text_queue, audio_queue, chars_to_send,
                    chars_received, elevenlabs_websocket, exc, outcome, ws, wsIn,
                    voiced, buffer, bind, mpv_installed, process, live, spawned,
                    mpv_process, written, resubmit >>

\* listen, line 198: recv() raises ConnectionClosed once the connection is
\* closed and the frames received before the close have been returned.
ListenClosed(a) ==
    /\ Alive
    /\ task[a]["listen"] = "run"
    /\ wsOut[a] = <<>>
    /\ ws[a] = "closed"
    /\ task' = [task EXCEPT ![a]["listen"] = "cc"]
    /\ exc' = Propagate(a, "cc")
    /\ UNCHANGED << script, pidx, textQ, chunkQ, audioQ, charList, recvList, pc,
                    status, cur, text_queue, chunked_text_queue, audio_queue,
                    chars_to_send, chars_received, elevenlabs_websocket, outcome,
                    ws, wsIn, voiced, wsOut, buffer, bind, mpv_installed, process,
                    live, spawned, mpv_process, written, resubmit >>

\* listen, lines 198-202: a frame that is not JSON, or whose audio is not
\* base64, raises an exception that is not ConnectionClosed.
ListenFatal(a) ==
    /\ Alive
    /\ task[a]["listen"] = "run"
    /\ ws[a] = "open"
    /\ wsOut[a] = <<>>
    /\ task' = [task EXCEPT ![a]["listen"] = "fatal"]
    /\ exc' = Propagate(a, "fatal")
    /\ UNCHANGED << script, pidx, textQ, chunkQ, audioQ, charList, recvList, pc,
                    status, cur, text_queue, chunked_text_queue, audio_queue,
                    chars_to_send, chars_received, elevenlabs_websocket, outcome,
                    ws, wsIn, voiced, wsOut, buffer, bind, mpv_installed, process,
                    live, spawned, mpv_process, written, resubmit >>


\* ------------------------------------------- MPVProcessSingleton and stream
\* A start_process that spawns at every call: the variant C12 excludes.
StartSpawns_always == TRUE

\* start_process, line 111: a process is spawned when none is held or the
\* held one has exited.
StartSpawns == process = 0 \/ process \notin live

\* stop_process, line 119: the held process is stopped when there is one.
StopActs == process # 0

\* stream, lines 227-229: the first step of the task.  start_process raises
\* ValueError when mpv is not installed.
StreamStart(a) ==
    /\ Alive
    /\ task[a]["stream"] = "init"
    /\ IF ~mpv_installed
       THEN /\ task' = [task EXCEPT ![a]["stream"] = "fatal"]
            /\ exc' = Propagate(a, "fatal")
            /\ UNCHANGED << process, live, spawned, mpv_process >>
       ELSE /\ task' = [task EXCEPT ![a]["stream"] = "run"]
            /\ exc' = exc
            /\ IF StartSpawns
               THEN /\ spawned' = spawned + 1
                    /\ process' = spawned + 1
                    /\ live' = live \cup {spawned + 1}
               ELSE UNCHANGED << process, live, spawned >>
            /\ mpv_process' = [mpv_process EXCEPT ![a] = process']
    /\ UNCHANGED << script, pidx, textQ, chunkQ, audioQ, charList, recvList, pc,
                    status, cur, text_queue, chunked_text_queue, audio_queue,
                    chars_to_send, chars_received, elevenlabs_websocket, outcome,
                    ws, wsIn, voiced, wsOut, buffer, bind, mpv_installed, written,
                    resubmit >>

\* stream, lines 232-240: one pass of its while loop; on the sentinel the
\* loop ends and stop_process closes the held process's stdin and waits for
\* it.  A write to a process whose stdin is closed raises.
Stream(a) ==
    /\ Alive
    /\ task[a]["stream"] = "run"
    /\ audioQ[bind[a].aq] # <<>>
    /\ LET chunk == Head(audioQ[bind[a].aq])
       IN /\ audioQ' = [audioQ EXCEPT ![bind[a].aq] = Tail(@)]
          /\ IF chunk = AudioNone
             THEN /\ task' = [task EXCEPT ![a]["stream"] = "done"]
                  /\ exc' = exc
                  /\ written' = written
                  /\ IF StopActs
                     THEN /\ live' = live \ {process}
                          /\ process' = 0
                     ELSE UNCHANGED << process, live >>
             ELSE IF mpv_process[a] \in live
             THEN /\ written' = Append(written, chunk)
                  /\ UNCHANGED << task, exc, process, live >>
             ELSE /\ task' = [task EXCEPT ![a]["stream"] = "fatal"]
                  /\ exc' = Propagate(a, "fatal")
                  /\ UNCHANGED << written, process, live >>
    /\ UNCHANGED << script, pidx, textQ, chunkQ, charList, recvList, pc, status, cur,
                    text_queue, chunked_text_queue, audio_queue, chars_to_send,
                    chars_received, elevenlabs_websocket, outcome, ws, wsIn, voiced,
                    wsOut, buffer, bind, mpv_installed, spawned, mpv_process,
                    resubmit >>

\* ------------------------------------------ text_to_speech_input_streaming
\* Line 391: gather starts the four stages on the objects the locals name.
Launched == [text_chunker |-> "run", send_text |-> "run", listen |-> "run",
             stream |-> "init"]

\* connect_to_elevenlabs, lines 366-379, as line 388 calls it: the connection
\* is opened and primed ("ok"); websockets.connect raises ("fatal"); or the
\* connection is opened and the remote side closes it before the priming frame
\* is sent ("cc").  A call that raises assigns nothing to elevenlabs_websocket.
Connect(r) ==
    /\ pc = "connect"
    /\ status = "running"
    /\ r = "cc" => cur < MaxAttempts
    /\ IF r = "ok"
       THEN /\ ws' = [ws EXCEPT ![cur] = "open"]
            /\ elevenlabs_websocket' = cur
            /\ task' = [task EXCEPT ![cur] = Launched]
            /\ bind' = [bind EXCEPT ![cur] = [tin |-> text_queue, cq |-> chunked_text_queue,
                                             aq |-> audio_queue, cr |-> chars_received]]
            /\ pc' = "gather"
            /\ exc' = "none"
       ELSE /\ ws' = [ws EXCEPT ![cur] = IF r = "cc" THEN "closed" ELSE "none"]
            /\ pc' = "except"
            /\ exc' = r
            /\ UNCHANGED << elevenlabs_websocket, task, bind >>
    /\ UNCHANGED << script, pidx, textQ, chunkQ, audioQ, charList, recvList, status,
                    cur, text_queue, chunked_text_queue, audio_queue, chars_to_send,
                    chars_received, outcome, wsIn, voiced, wsOut, buffer,
                    mpv_installed, process, live, spawned, mpv_process, written,
                    resubmit >>

\* A retry loop that recovers from every exception: the variant C8 excludes.
Recoverable_any(e) == e # "none"

\* Line 400: the exceptions the retry loop recovers from.
Recoverable(e) == e = "cc"

\* Lines 406 and 413: the queues the handler replaces; line 383 is the only
\* assignment to audio_queue.
NextTextQueue(old, fresh) == fresh

NextChunkedQueue(old, fresh) == fresh

NextAudioQueue(old, fresh) == old

\* Lines 407-408: what the handler puts on the new text queue.
ResidualItems(remaining_chars) == <<remaining_chars, None>>

\* The characters of the first k of the units, as the provider confirms them.
ConfirmedOf(units, k) ==
    IF k = 0 THEN <<>> ELSE PrimingText \o Flatten(SubSeq(units, 1, k))

\* History: when the producer has finished and the provider has confirmed
\* exactly the first k of the n units of the text, the n-k units after them.
Expectation(sent, received) ==
    LET units == UnitsOf(sent)
        K == {k \in 0..Len(units) : received = ConfirmedOf(units, k)}
    IN IF ProducerDone /\ K # {}
       THEN [pre |-> TRUE,
             expect |-> LET k == CHOOSE k \in K : TRUE
                        IN SubSeq(units, k + 1, Len(units))]
       ELSE [pre |-> FALSE, expect |-> <<>>]

\* The finally clause, line 421: close() on an unbound local raises
\* UnboundLocalError in place of whatever was propagating.
Unbound == elevenlabs_websocket = 0

Finally == IF Unbound THEN ws ELSE [ws EXCEPT ![elevenlabs_websocket] = "closed"]

\* Lines 400-421: the exception of the try body reaches the except clauses,
\* then the finally clause.
Except ==
    /\ pc \in {"gather", "except"}
    /\ status = "running"
    /\ exc # "none"
    /\ ws' = Finally
    /\ outcome' = [outcome EXCEPT ![cur] = exc]
    /\ IF Recoverable(exc)
       THEN LET r == AlignScan(charList[chars_to_send], recvList[chars_received])
                remaining_chars ==
                    get_remaining_chars_to_send(charList[chars_to_send],
                                                recvList[chars_received])
                fresh == cur + 1
            IN IF r.kind = "raise"
               THEN /\ status' = IF Unbound THEN "unbound_error" ELSE "alignment_error"
                    /\ pc' = "done"
                    /\ UNCHANGED << textQ, chunkQ, charList, recvList, cur, text_queue,
                                    chunked_text_queue, audio_queue, chars_to_send,
                                    chars_received, exc, resubmit >>
               ELSE /\ cur < MaxAttempts
                    /\ text_queue' = NextTextQueue(text_queue, fresh)
                    /\ textQ' = [textQ EXCEPT ![text_queue'] =
                                    (IF text_queue' = fresh THEN <<>> ELSE @)
                                    \o ResidualItems(remaining_chars)]
                    /\ chars_to_send' = fresh
                    /\ charList' = [charList EXCEPT ![fresh] = remaining_chars]
                    /\ chars_received' = fresh
                    /\ recvList' = [recvList EXCEPT ![fresh] = <<>>]
                    /\ chunked_text_queue' = NextChunkedQueue(chunked_text_queue, fresh)
                    /\ chunkQ' = chunkQ
                    /\ audio_queue' = NextAudioQueue(audio_queue, fresh)
                    /\ resubmit' = [resubmit EXCEPT ![fresh] =
                                       Expectation(charList[chars_to_send],
                                                   recvList[chars_received])]
                    /\ IF Unbound
                       THEN /\ status' = "unbound_error"
                            /\ pc' = "done"
                            /\ UNCHANGED << cur, exc >>
                       ELSE /\ status' = status
                            /\ pc' = "connect"
                            /\ cur' = fresh
                            /\ exc' = "none"
       ELSE /\ status' = IF Unbound THEN "unbound_error" ELSE "failed"
            /\ pc' = "done"
            /\ UNCHANGED << textQ, chunkQ, charList, recvList, cur, text_queue,
                            chunked_text_queue, audio_queue, chars_to_send,
                            chars_received, exc, resubmit >>
    /\ UNCHANGED << script, pidx, audioQ, elevenlabs_websocket, wsIn, voiced, wsOut,
                    task, buffer, bind, mpv_installed, process, live, spawned,
                    mpv_process, written >>

\* Lines 391-398 and 421: the four stages of the attempt returned; break,
\* then the finally clause.
GatherDone ==
    /\ pc = "gather"
    /\ status = "running"
    /\ exc = "none"
    /\ \A s \in Stages : task[cur][s] = "done"
    /\ ws' = Finally
    /\ outcome' = [outcome EXCEPT ![cur] = "ok"]
    /\ status' = "completed"
    /\ pc' = "done"
    /\ UNCHANGED << script, pidx, textQ, chunkQ, audioQ, charList, recvList, cur,
                    text_queue, chunked_text_queue, audio_queue, chars_to_send,
                    chars_received, elevenlabs_websocket, exc, wsIn, voiced, wsOut,
                    task, buffer, bind, mpv_installed, process, live, spawned,
                    mpv_process, written, resubmit >>

Next ==
    \/ Produce
    \/ ProduceEnd
    \/ \E r \in {"ok", "fatal", "cc"} : Connect(r)
    \/ Except
    \/ GatherDone
    \/ \E a \in Attempts : Chunker(a)
    \/ \E a \in Attempts : SendText(a)
    \/ \E a \in Attempts : Voice(a)
    \/ \E a \in Attempts : RemoteClose(a)
    \/ \E a \in Attempts : Listen(a)
    \/ \E a \in Attempts : ListenClosed(a)
    \/ \E a \in Attempts : ListenFatal(a)
    \/ \E a \in Attempts : StreamStart(a)
    \/ \E a \in Attempts : Stream(a)

Spec == Init /\ [][Next]_vars


\* ------------------------------------------------- the handler on its own
\* The ledgers the alignment function is run on: every sent list and every
\* received list (empty, or the echo of the priming text and then confirmed
\* characters) over the alphabet, up to the bounds.
MaxSent == 3

MaxReceived == 4

AlignAlphabet == {"a", "b", " "}

SeqsUpTo(S, n) == UNION {[1..k -> S] : k \in 0..n}

ReceivedLists ==
    {<<>>} \cup {PrimingText \o c : c \in SeqsUpTo(AlignAlphabet, MaxReceived)}

\* The state in which the except clause of line 400 starts in the first pass
\* of the loop, for arbitrary ledgers.
AlignInit ==
    /\ script = <<>>
    /\ pidx = 2
    /\ textQ = [q \in Attempts |-> <<>>]
    /\ chunkQ = [q \in Attempts |-> <<>>]
    /\ audioQ = [q \in Attempts |-> <<>>]
    /\ \E sent \in SeqsUpTo(AlignAlphabet, MaxSent) :
           charList = [l \in Attempts |-> IF l = 1 THEN sent ELSE <<>>]
    /\ \E received \in ReceivedLists :
           recvList = [l \in Attempts |-> IF l = 1 THEN received ELSE <<>>]
    /\ pc = "gather"
    /\ status = "running"
    /\ cur = 1
    /\ text_queue = 1
    /\ chunked_text_queue = 1
    /\ audio_queue = 1
    /\ chars_to_send = 1
    /\ chars_received = 1
    /\ elevenlabs_websocket = 1
    /\ exc = "cc"
    /\ outcome = [a \in Attempts |-> "none"]
    /\ ws = [a \in Attempts |-> IF a = 1 THEN "closed" ELSE "none"]
    /\ wsIn = [a \in Attempts |-> <<>>]
    /\ voiced = [a \in Attempts |-> 0]
    /\ wsOut = [a \in Attempts |-> <<>>]
    /\ task = [a \in Attempts |-> IF a = 1 THEN [Launched EXCEPT !["listen"] = "cc"]
                                           ELSE NoTasks]
    /\ buffer = [a \in Attempts |-> <<>>]
    /\ bind = [a \in Attempts |-> IF a = 1 THEN [tin |-> 1, cq |-> 1, aq |-> 1, cr |-> 1]
                                           ELSE [tin |-> 0, cq |-> 0, aq |-> 0, cr |-> 0]]
    /\ mpv_installed = TRUE
    /\ process = 0
    /\ live = {}
    /\ spawned = 0
    /\ mpv_process = [a \in Attempts |-> 0]
    /\ written = <<>>
    /\ resubmit = [a \in Attempts |-> [pre |-> FALSE, expect |-> <<>>]]

AlignNext == Except

AlignSpec == AlignInit /\ [][AlignNext]_vars


\* ------------------------------------- the playback singleton on its own
\* How many playback processes the model lets start_process spawn.
MaxSpawn == 6

\* Everything but the singleton and the handles its callers keep.
SessionVars == << script, pidx, textQ, chunkQ, audioQ, charList, recvList, pc, status,
                  cur, text_queue, chunked_text_queue, audio_queue, chars_to_send,
                  chars_received, elevenlabs_websocket, exc, outcome, ws, wsIn,
                  voiced, wsOut, task, buffer, bind, mpv_installed, written,
                  resubmit >>

\* MPVProcessSingleton().start_process(), lines 106-116, called by caller a,
\* which then reads .process as stream does at line 229.  Without mpv the call
\* raises and changes nothing.
start_process(a) ==
    /\ IF ~mpv_installed
       THEN UNCHANGED << process, live, spawned, mpv_process >>
       ELSE /\ IF StartSpawns
               THEN /\ spawned < MaxSpawn
                    /\ spawned' = spawned + 1
                    /\ process' = spawned + 1
                    /\ live' = live \cup {spawned + 1}
               ELSE UNCHANGED << process, live, spawned >>
            /\ mpv_process' = [mpv_process EXCEPT ![a] = process']
    /\ UNCHANGED SessionVars

\* MPVProcessSingleton().stop_process(), lines 118-125: stdin.close(), wait()
\* and process = None, when a process is held.
stop_process ==
    /\ IF StopActs
       THEN /\ live' = live \ {process}
            /\ process' = 0
       ELSE UNCHANGED << process, live >>
    /\ UNCHANGED << spawned, mpv_process >>
    /\ UNCHANGED SessionVars

\* The playback process exits by itself: poll() is no longer None.
ProcessExit ==
    /\ process \in live
    /\ live' = live \ {process}
    /\ UNCHANGED << process, spawned, mpv_process >>
    /\ UNCHANGED SessionVars

\* A program that has made no call yet, no utterance running.
MpvInit ==
    /\ script = <<>>
    /\ pidx = 2
    /\ textQ = [q \in Attempts |-> <<>>]
    /\ chunkQ = [q \in Attempts |-> <<>>]
    /\ audioQ = [q \in Attempts |-> <<>>]
    /\ charList = [l \in Attempts |-> <<>>]
    /\ recvList = [l \in Attempts |-> <<>>]
    /\ pc = "done"
    /\ status = "completed"
    /\ cur = 1
    /\ text_queue = 1
    /\ chunked_text_queue = 1
    /\ audio_queue = 1
    /\ chars_to_send = 1
    /\ chars_received = 1
    /\ elevenlabs_websocket = 0
    /\ exc = "none"
    /\ outcome = [a \in Attempts |-> "none"]
    /\ ws = [a \in Attempts |-> "none"]
    /\ wsIn = [a \in Attempts |-> <<>>]
    /\ voiced = [a \in Attempts |-> 0]
    /\ wsOut = [a \in Attempts |-> <<>>]
    /\ task = [a \in Attempts |-> NoTasks]
    /\ buffer = [a \in Attempts |-> <<>>]
    /\ bind = [a \in Attempts |-> [tin |-> 0, cq |-> 0, aq |-> 0, cr |-> 0]]
    /\ mpv_installed \in BOOLEAN
    /\ process = 0
    /\ live = {}
    /\ spawned = 0
    /\ mpv_process = [a \in Attempts |-> 0]
    /\ written = <<>>
    /\ resubmit = [a \in Attempts |-> [pre |-> FALSE, expect |-> <<>>]]

MpvNext ==
    \/ \E a \in Attempts : start_process(a)
    \/ stop_process
    \/ ProcessExit

MpvSpec == MpvInit /\ [][MpvNext]_vars


\* --------------------------------------------------- text_chunker on its own
\* The inputs the chunker is run on: up to MaxFragments fragments of up to
\* MaxFragLen characters (the empty fragment among them), then the end
\* marker, then possibly an item the chunker must never read.
MaxFragments == 2

MaxFragLen == 2

ChunkAlphabet == {"a", "b", " "}

Fragments == SeqsUpTo(ChunkAlphabet, MaxFragLen)

\* text_chunker(input_queue, output_queue), line 129, started on queue 1 with
\* its input already queued.
ChunkInit ==
    /\ script \in SeqsUpTo(Fragments, MaxFragments)
    /\ pidx = Len(script) + 2
    /\ \E extra \in {<<>>, << <<"b">> >>} :
           textQ = [q \in Attempts |-> IF q = 1 THEN script \o <<None>> \o extra
                                                ELSE <<>>]
    /\ chunkQ = [q \in Attempts |-> <<>>]
    /\ audioQ = [q \in Attempts |-> <<>>]
    /\ charList = [l \in Attempts |-> <<>>]
    /\ recvList = [l \in Attempts |-> <<>>]
    /\ pc = "gather"
    /\ status = "running"
    /\ cur = 1
    /\ text_queue = 1
    /\ chunked_text_queue = 1
    /\ audio_queue = 1
    /\ chars_to_send = 1
    /\ chars_received = 1
    /\ elevenlabs_websocket = 1
    /\ exc = "none"
    /\ outcome = [a \in Attempts |-> "none"]
    /\ ws = [a \in Attempts |-> IF a = 1 THEN "open" ELSE "none"]
    /\ wsIn = [a \in Attempts |-> <<>>]
    /\ voiced = [a \in Attempts |-> 0]
    /\ wsOut = [a \in Attempts |-> <<>>]
    /\ task = [a \in Attempts |-> IF a = 1 THEN [NoTasks EXCEPT !["text_chunker"] = "run"]
                                           ELSE NoTasks]
    /\ buffer = [a \in Attempts |-> <<>>]
    /\ bind = [a \in Attempts |-> IF a = 1 THEN [tin |-> 1, cq |-> 1, aq |-> 1, cr |-> 1]
                                           ELSE [tin |-> 0, cq |-> 0, aq |-> 0, cr |-> 0]]
    /\ mpv_installed = TRUE
    /\ process = 0
    /\ live = {}
    /\ spawned = 0
    /\ mpv_process = [a \in Attempts |-> 0]
    /\ written = <<>>
    /\ resubmit = [a \in Attempts |-> [pre |-> FALSE, expect |-> <<>>]]

ChunkNext == Chunker(1)

ChunkSpec == ChunkInit /\ [][ChunkNext]_vars


\* --------------------------------------------------------- listen on its own
\* The frames the receive loop is run on: up to MaxFrames frames, frame k
\* with or without audio (its chunk is <<1, k>>), with or without alignment
\* characters, with or without the final flag; frames may follow a final one.
MaxFrames == 3

FramesAt(k) ==
    [audio : {AudioNone, <<1, k>>}, chars : {<<>>, <<"a">>}, isFinal : BOOLEAN]

FrameSeqs ==
    UNION { {f \in [1..n -> UNION {FramesAt(k) : k \in 1..MaxFrames}] :
                 \A k \in 1..n : f[k] \in FramesAt(k)} : n \in 0..MaxFrames }

\* listen(websocket, audio_queue, chars_received), line 190, started on an
\* open connection whose frames are already received.
ListenInit ==
    /\ script = <<>>
    /\ pidx = 2
    /\ textQ = [q \in Attempts |-> <<>>]
    /\ chunkQ = [q \in Attempts |-> <<>>]
    /\ audioQ = [q \in Attempts |-> <<>>]
    /\ charList = [l \in Attempts |-> <<>>]
    /\ recvList = [l \in Attempts |-> <<>>]
    /\ pc = "gather"
    /\ status = "running"
    /\ cur = 1
    /\ text_queue = 1
    /\ chunked_text_queue = 1
    /\ audio_queue = 1
    /\ chars_to_send = 1
    /\ chars_received = 1
    /\ elevenlabs_websocket = 1
    /\ exc = "none"
    /\ outcome = [a \in Attempts |-> "none"]
    /\ ws = [a \in Attempts |-> IF a = 1 THEN "open" ELSE "none"]
    /\ wsIn = [a \in Attempts |-> <<>>]
    /\ voiced = [a \in Attempts |-> 0]
    /\ \E frames \in FrameSeqs :
           wsOut = [a \in Attempts |-> IF a = 1 THEN frames ELSE <<>>]
    /\ task = [a \in Attempts |-> IF a = 1 THEN [NoTasks EXCEPT !["listen"] = "run"]
                                           ELSE NoTasks]
    /\ buffer = [a \in Attempts |-> <<>>]
    /\ bind = [a \in Attempts |-> IF a = 1 THEN [tin |-> 1, cq |-> 1, aq |-> 1, cr |-> 1]
                                           ELSE [tin |-> 0, cq |-> 0, aq |-> 0, cr |-> 0]]
    /\ mpv_installed = TRUE
    /\ process = 0
    /\ live = {}
    /\ spawned = 0
    /\ mpv_process = [a \in Attempts |-> 0]
    /\ written = <<>>
    /\ resubmit = [a \in Attempts |-> [pre |-> FALSE, expect |-> <<>>]]

ListenNext == Listen(1)

ListenSpec == ListenInit /\ [][ListenNext]_vars


\* ------------------------------------ the handler on the ledgers of a run
\* The ledgers of the cases the alignment function is specified for: sent is
\* any text up to MaxLedger characters with line breaks and a character of
\* the substitution table in it; received is the artifact followed by a
\* prefix of sent as written, by a prefix of sent as the provider voices it,
\* or by such a prefix with one or two extra characters put in at one place,
\* or with one character moved one or two places later.
MaxLedger == 3

LedgerAlphabet == {"a", "b", "\n", "u2019"}

\* A character of the ledgers as the provider's normalizedAlignment gives
\* it: the typographic quote as a plain apostrophe, the em dash as a hyphen.
Spoken(char) ==
    CASE char = "u2019" -> "'"
      [] char = "u2014" -> "-"
      [] OTHER -> char

\* sent as the provider confirms it: normalised, line breaks never voiced.
Voiced(sent) ==
    SelectSeq([k \in 1..Len(sent) |-> Spoken(sent[k])], LAMBDA c : c # "\n")

Prefixes(s) == {SubSeq(s, 1, k) : k \in 0..Len(s)}

\* d extra characters put in after the first p characters of u.
Inserted(u, p, d) ==
    SubSeq(u, 1, p) \o [k \in 1..d |-> "x"] \o SubSeq(u, p + 1, Len(u))

\* Character p of u moved d places later.
Moved(u, p, d) ==
    SubSeq(u, 1, p - 1) \o SubSeq(u, p + 1, p + d) \o <<u[p]>>
    \o SubSeq(u, p + d + 1, Len(u))

Displacements == 1..displacement_tolerance

InsertedOf(u) == {Inserted(u, p, d) : p \in 0..Len(u), d \in Displacements}

MovedOf(u) ==
    UNION { {Moved(u, p, d) : p \in 1..(Len(u) - d)} : d \in Displacements }

ConfirmedFor(sent) ==
    LET U == Prefixes(sent) \cup Prefixes(Voiced(sent))
    IN U \cup UNION {InsertedOf(u) : u \in U} \cup UNION {MovedOf(u) : u \in U}

\* The state in which the except clause of line 400 starts, on these ledgers.
LedgerInit ==
    /\ script = <<>>
    /\ pidx = 2
    /\ textQ = [q \in Attempts |-> <<>>]
    /\ chunkQ = [q \in Attempts |-> <<>>]
    /\ audioQ = [q \in Attempts |-> <<>>]
    /\ \E sent \in SeqsUpTo(LedgerAlphabet, MaxLedger) :
           /\ charList = [l \in Attempts |-> IF l = 1 THEN sent ELSE <<>>]
           /\ \E c \in ConfirmedFor(sent) :
                  recvList = [l \in Attempts |-> IF l = 1 THEN PrimingText \o c
                                                         ELSE <<>>]
    /\ pc = "gather"
    /\ status = "running"
    /\ cur = 1
    /\ text_queue = 1
    /\ chunked_text_queue = 1
    /\ audio_queue = 1
    /\ chars_to_send = 1
    /\ chars_received = 1
    /\ elevenlabs_websocket = 1
    /\ exc = "cc"
    /\ outcome = [a \in Attempts |-> "none"]
    /\ ws = [a \in Attempts |-> IF a = 1 THEN "closed" ELSE "none"]
    /\ wsIn = [a \in Attempts |-> <<>>]
    /\ voiced = [a \in Attempts |-> 0]
    /\ wsOut = [a \in Attempts |-> <<>>]
    /\ task = [a \in Attempts |-> IF a = 1 THEN [Launched EXCEPT !["listen"] = "cc"]
                                           ELSE NoTasks]
    /\ buffer = [a \in Attempts |-> <<>>]
    /\ bind = [a \in Attempts |-> IF a = 1 THEN [tin |-> 1, cq |-> 1, aq |-> 1, cr |-> 1]
                                           ELSE [tin |-> 0, cq |-> 0, aq |-> 0, cr |-> 0]]
    /\ mpv_installed = TRUE
    /\ process = 0
    /\ live = {}
    /\ spawned = 0
    /\ mpv_process = [a \in Attempts |-> 0]
    /\ written = <<>>
    /\ resubmit = [a \in Attempts |-> [pre |-> FALSE, expect |-> <<>>]]

LedgerNext == Except

LedgerSpec == LedgerInit /\ [][LedgerNext]_vars


\* ------------------------------- the handler on the ledgers of one sentence
\* The sentence "Hello world " as the producer appends it to chars_to_send.
ScenarioText == <<"H", "e", "l", "l", "o", " ", "w", "o", "r", "l", "d", " ">>

\* The state in which the except clause of line 400 starts in the first pass
\* with these two ledgers.
HandlerStart(sent, received) ==
    /\ script = <<>>
    /\ pidx = 2
    /\ textQ = [q \in Attempts |-> <<>>]
    /\ chunkQ = [q \in Attempts |-> <<>>]
    /\ audioQ = [q \in Attempts |-> <<>>]
    /\ charList = [l \in Attempts |-> IF l = 1 THEN sent ELSE <<>>]
    /\ recvList = [l \in Attempts |-> IF l = 1 THEN received ELSE <<>>]
    /\ pc = "gather"
    /\ status = "running"
    /\ cur = 1
    /\ text_queue = 1
    /\ chunked_text_queue = 1
    /\ audio_queue = 1
    /\ chars_to_send = 1
    /\ chars_received = 1
    /\ elevenlabs_websocket = 1
    /\ exc = "cc"
    /\ outcome = [a \in Attempts |-> "none"]
    /\ ws = [a \in Attempts |-> IF a = 1 THEN "closed" ELSE "none"]
    /\ wsIn = [a \in Attempts |-> <<>>]
    /\ voiced = [a \in Attempts |-> 0]
    /\ wsOut = [a \in Attempts |-> <<>>]
    /\ task = [a \in Attempts |-> IF a = 1 THEN [Launched EXCEPT !["listen"] = "cc"]
                                           ELSE NoTasks]
    /\ buffer = [a \in Attempts |-> <<>>]
    /\ bind = [a \in Attempts |-> IF a = 1 THEN [tin |-> 1, cq |-> 1, aq |-> 1, cr |-> 1]
                                           ELSE [tin |-> 0, cq |-> 0, aq |-> 0, cr |-> 0]]
    /\ mpv_installed = TRUE
    /\ process = 0
    /\ live = {}
    /\ spawned = 0
    /\ mpv_process = [a \in Attempts |-> 0]
    /\ written = <<>>
    /\ resubmit = [a \in Attempts |-> [pre |-> FALSE, expect |-> <<>>]]

\* sent is the sentence as far as the producer has streamed it; received is
\* empty, or the artifact and the sentence as far as the provider confirmed
\* it.
ScenarioInit ==
    \E sent \in Prefixes(ScenarioText) :
        \E received \in {<<>>} \cup {PrimingText \o c : c \in Prefixes(ScenarioText)} :
            HandlerStart(sent, received)

ScenarioNext == Except

ScenarioSpec == ScenarioInit /\ [][ScenarioNext]_vars


\* ------------------------- the handler on the ledgers of a quoted sentence
\* sent is any text up to MaxQuote characters with typographic right single
\* quotes, line breaks, em dashes and hyphens in it; received is the artifact
\* and then sent, or a prefix of it, with a plain apostrophe wherever sent
\* has the typographic quote and every other character as it is in sent.
MaxQuote == 4

QuoteAlphabet == {"a", "\n", "u2019", "u2014", "-"}

QuotePaired(sent) ==
    [k \in 1..Len(sent) |-> IF sent[k] = "u2019" THEN "'" ELSE sent[k]]

QuoteInit ==
    \E sent \in SeqsUpTo(QuoteAlphabet, MaxQuote) :
        \E c \in Prefixes(QuotePaired(sent)) :
            HandlerStart(sent, PrimingText \o c)

QuoteNext == Except

QuoteSpec == QuoteInit /\ [][QuoteNext]_vars


\* ------------------ the handler on ledgers with multi-character replacements
\* sent is any text up to MaxExpand characters with the horizontal ellipsis,
\* the pound sign and line breaks in it; received is the artifact and then a
\* prefix of sent as written, or of sent as a provider spells it out, one
\* single character per list element: the ellipsis as three full stops, the
\* pound sign as G, B, P, line breaks left out.
MaxExpand == 3

ExpandAlphabet == {"a", "\n", "u2026", "u00A3"}

SpelledOut(char) ==
    CASE char = "u2026" -> <<".", ".", ".">>
      [] char = "u00A3" -> <<"G", "B", "P">>
      [] char = "\n" -> <<>>
      [] OTHER -> <<char>>

Expanded(sent) == Flatten([k \in 1..Len(sent) |-> SpelledOut(sent[k])])

ExpandInit ==
    \E sent \in SeqsUpTo(ExpandAlphabet, MaxExpand) :
        \E c \in Prefixes(sent) \cup Prefixes(Expanded(sent)) :
            HandlerStart(sent, PrimingText \o c)

ExpandNext == Except

ExpandSpec == ExpandInit /\ [][ExpandNext]_vars


\* ================================================================ claims
\* Nothing further can happen: every task is blocked or has ended.
Quiescent == ~ENABLED Next

HasEos(a) == wsIn[a] # <<>> /\ wsIn[a][Len(wsIn[a])].text = <<>>

\* The TextUnits submitted on the connection of attempt a, in order.
SubmittedUnits(a) ==
    LET n == IF HasEos(a) THEN Len(wsIn[a]) - 1 ELSE Len(wsIn[a])
    IN [k \in 1..n |-> wsIn[a][k].text]

\* Every chunk was written once, and the chunks of one attempt in the order
\* its receive loop got them.
SinkInOrder ==
    \A i, j \in 1..Len(written) :
        i < j => /\ written[i] # written[j]
                 /\ written[i][1] = written[j][1] => written[i][2] < written[j][2]

\* C1: when the connection is closed after the provider confirmed exactly the
\* characters of the first k of the n TextUnits, the producer having
\* finished, the next attempt submits exactly the remaining n-k units, in
\* order, none repeated and none missing, and the sink is written every chunk
\* once and in the order of its attempt.
C1_ResyncExact ==
    /\ \A a \in Attempts :
           resubmit[a].pre =>
               /\ IsPrefix(SubmittedUnits(a), resubmit[a].expect)
               /\ HasEos(a) => SubmittedUnits(a) = resubmit[a].expect
    /\ SinkInOrder

\* C2: a disconnect is invisible to the producer: once the session has
\* completed and nothing further can happen, every character the producer
\* emitted (spaces aside, which the chunker rewrites) was submitted to the
\* provider in a text frame of some attempt.
C2_ProducerTextSubmitted ==
    (status = "completed" /\ Quiescent) =>
        \A i \in 1..Len(charList[1]) :
            charList[1][i] # " " =>
                \E a \in Attempts : \E k \in 1..Len(wsIn[a]) :
                    \E m \in 1..Len(wsIn[a][k].text) :
                        wsIn[a][k].text[m] = charList[1][i]

RECURSIVE IsSubseq(_, _)
IsSubseq(s, t) ==
    IF s = <<>> THEN TRUE
    ELSE IF t = <<>> THEN FALSE
    ELSE IF Head(s) = Head(t) THEN IsSubseq(Tail(s), Tail(t))
    ELSE IsSubseq(s, Tail(t))

\* C3: no confirmed character is resent: when the handler returns a residual
\* text for a received list whose elements (after the artifact) are
\* characters of sent in their order, every one of them is a character of
\* sent at an index below the resume point.
C3_NoConfirmedResent ==
    (pc = "connect" /\ cur = 2) =>
        LET sent == charList[1]
            confirmed == chars_received_formatted(recvList[1])
            r == Len(sent) - Len(charList[2])
        IN IsSubseq(confirmed, chars_to_send_formatted(sent)) =>
               \A k \in 1..Len(confirmed) :
                   \E i \in 1..r : custom_decode(sent[i]) = confirmed[k]

\* C4: the stage tasks of a failed attempt have all ended before the next
\* attempt is prepared and run: no stage of an attempt before the current
\* one is still running.
C4_FailedStagesExited ==
    \A a \in Attempts : a < cur => \A s \in Stages : ~Running(a, s)

\* The tasks of one stage that are in their loop on queue q.
Users(stage, field, q) == {a \in Attempts : task[a][stage] = "run" /\ bind[a][field] = q}

\* C5: every queue has at most one task that puts to it and at most one task
\* that gets from it.
C5_SingleWriterSingleReader ==
    \A q \in Attempts :
        /\ Cardinality(Users("text_chunker", "tin", q)) <= 1
        /\ Cardinality(Users("text_chunker", "cq", q)) <= 1
        /\ Cardinality(Users("send_text", "cq", q)) <= 1
        /\ Cardinality(Users("listen", "aq", q)) <= 1
        /\ Cardinality(Users("stream", "aq", q)) <= 1

\* The queue objects an earlier attempt's stages were started with.
UsedBefore(field) == {bind[a][field] : a \in {b \in Attempts : b < cur /\ task[b] # NoTasks}}

\* C6: when the loop comes round after a disconnect, the three queues of the
\* next attempt are new objects, the text queue holds the residual text and
\* one end marker, and the chunked-text and audio queues are empty.
C6_AllQueuesFresh ==
    (pc = "connect" /\ cur > 1) =>
        /\ text_queue \notin UsedBefore("tin") \cup {1}
        /\ textQ[text_queue] = <<charList[chars_to_send], None>>
        /\ chunked_text_queue \notin UsedBefore("cq")
        /\ chunkQ[chunked_text_queue] = <<>>
        /\ audio_queue \notin UsedBefore("aq")
        /\ audioQ[audio_queue] = <<>>

\* C7: once the receive loop of the current attempt has read the provider's
\* final frame, the session does not come to rest before
\* text_to_speech_input_streaming has returned.
C7_CompletesAfterFinal ==
    (task[cur]["listen"] = "done" /\ Quiescent) => status # "running"

\* C8 as amended: a further attempt is made only after an attempt that ended
\* with the connection-closed condition; after any other error the session
\* has ended, no connection is open and no further attempt is made.
C8_RetryOnlyAfterClosed ==
    /\ \A a \in Attempts : a < cur => outcome[a] = "cc"
    /\ \A a \in Attempts :
           outcome[a] = "fatal" =>
               /\ pc = "done"
               /\ status \in {"failed", "unbound_error"}
               /\ cur = a
               /\ \A b \in Attempts : ws[b] # "open"

\* C8 as claimed: a further attempt is made if and only if the attempt ended
\* with the connection-closed condition.  (The first pass, in which closing
\* the unbound connection raises, is left to C9: the statement here is the
\* claim for the passes in which the connection is released normally.)
C8_RetryIffClosed ==
    /\ C8_RetryOnlyAfterClosed
    /\ \A a \in Attempts :
           (outcome[a] = "cc" /\ status # "unbound_error") => a < cur

\* A retry after a disconnect, and then an error that ends the session.
C8_Witness ==
    /\ cur = 2
    /\ outcome[1] = "cc"
    /\ outcome[2] = "fatal"
    /\ status = "failed"

\* C9: every connection is closed before the next attempt connects and
\* before the session returns, two are never open at once, and releasing the
\* connection never raises.
C9_ConnectionsReleased ==
    /\ Cardinality({a \in Attempts : ws[a] = "open"}) <= 1
    /\ pc \in {"connect", "done"} => \A a \in Attempts : ws[a] # "open"
    /\ status # "unbound_error"

\* C10: once text_to_speech_input_streaming has returned after an error that
\* is not connection-closed, the connection is closed, no playback process
\* is running and no stage task is running.
C10_FatalReleasesAll ==
    status = "failed" =>
        /\ \A a \in Attempts : ws[a] # "open"
        /\ live = {}
        /\ \A a \in Attempts : \A s \in Stages : ~Running(a, s)

\* C11: when the playback executable cannot be located, the error is raised
\* before any stage starts: at the time start_process has raised, no provider
\* connection has been opened, no other stage task has been launched and no
\* text frame has been sent.
C11_ConfigErrorBeforeStages ==
    (~mpv_installed /\ \E a \in Attempts : task[a]["stream"] = "fatal") =>
        \A a \in Attempts :
            /\ ws[a] = "none"
            /\ \A s \in Stages \ {"stream"} : task[a][s] = "none"
            /\ wsIn[a] = <<>>

\* C12: over any sequence of start_process and stop_process calls at most one
\* playback process is live; while a process is running no step spawns one
\* and the handle is kept; a spawn happens only when no process is held or
\* the held one has ended, and is of exactly one process, which becomes the
\* held one; with no process held, a step that does not spawn changes nothing.
C12_AtMostOneProcess ==
    [][ /\ Cardinality(live) <= 1
        /\ Cardinality(live') <= 1
        /\ process \in live =>
               /\ spawned' = spawned
               /\ process' \in {process, 0}
               /\ \A a \in Attempts : mpv_process'[a] \in {mpv_process[a], process}
        /\ spawned' # spawned =>
               /\ process = 0 \/ process \notin live
               /\ spawned' = spawned + 1
               /\ process' = spawned'
               /\ live' = {process'}
        /\ (process = 0 /\ spawned' = spawned) =>
               /\ process' = 0
               /\ live' = live ]_vars

\* A second process was spawned after the first had ended, and a start that
\* found it running kept its handle.
C12_Witness ==
    /\ spawned = 2
    /\ process = 2
    /\ live = {2}
    /\ mpv_process[1] = 2
    /\ mpv_process[2] = 2

EmittedUnits == SelectSeq(chunkQ[1], LAMBDA u : u # None)

\* One trailing space stripped.
StripLast(s) == IF s # <<>> /\ s[Len(s)] = " " THEN SubSeq(s, 1, Len(s) - 1) ELSE s

\* s from character k on without its spaces that follow a space or start the
\* text (prev: the character before k was a space, or k is the first).
RECURSIVE Collapse(_, _, _)
Collapse(s, k, prev) ==
    IF k > Len(s) THEN <<>>
    ELSE IF s[k] = " "
         THEN (IF prev THEN <<>> ELSE <<" ">>) \o Collapse(s, k + 1, TRUE)
         ELSE <<s[k]>> \o Collapse(s, k + 1, FALSE)

\* Leading and trailing spaces removed, every run of spaces made one space.
Normalized(s) == StripLast(Collapse(s, 1, TRUE))

\* C14 as amended: once the chunker has read the end marker, the emitted
\* TextUnits concatenated, one trailing space stripped, are the concatenated
\* fragments with leading and trailing spaces removed and every run of
\* spaces made one space.
C14_ChunkerRoundTripNormalized ==
    task[1]["text_chunker"] = "done" =>
        StripLast(Flatten(EmittedUnits)) = Normalized(Flatten(script))

\* C14 as claimed: the emitted TextUnits concatenated, one trailing space
\* stripped, are the concatenated fragments.
C14_ChunkerRoundTrip ==
    task[1]["text_chunker"] = "done" =>
        StripLast(Flatten(EmittedUnits)) = Flatten(script)

\* The chunker has ended on fragments with a double space across the
\* fragment boundary, and emitted both words.
C14_Witness ==
    /\ task[1]["text_chunker"] = "done"
    /\ script = << <<"a", " ">>, <<" ", "b">> >>
    /\ EmittedUnits = << <<"a", " ">>, <<"b", " ">> >>

\* How many end markers a queue holds.
Markers(q) == Len(SelectSeq(q, LAMBDA u : u = None))

\* C15: the pass in which text_chunker reads the end marker puts the
\* non-empty buffer plus one space as a last TextUnit (nothing for an empty
\* buffer), then one end marker, and ends the task; no other pass puts a
\* marker, so the marker is put once and is the last item put; an ended
\* chunker takes nothing more from its input.
C15_FlushThenMarker ==
    [][ LET reads == /\ task[1]["text_chunker"] = "run"
                     /\ textQ[1] # <<>>
                     /\ Head(textQ[1]) = None
        IN /\ reads =>
                  /\ chunkQ'[1] = chunkQ[1]
                                  \o (IF buffer[1] # <<>>
                                      THEN << buffer[1] \o <<" ">> >> ELSE <<>>)
                                  \o <<None>>
                  /\ task'[1]["text_chunker"] = "done"
                  /\ textQ'[1] = Tail(textQ[1])
                  /\ Markers(chunkQ'[1]) = 1
           /\ ~reads => Markers(chunkQ'[1]) = Markers(chunkQ[1])
           /\ task[1]["text_chunker"] = "done" =>
                  /\ textQ' = textQ
                  /\ chunkQ' = chunkQ ]_vars

\* The chunker has ended after flushing the buffered word, with the marker
\* last on its output and the item behind the input's marker never read.
C15_Witness ==
    /\ task[1]["text_chunker"] = "done"
    /\ script = << <<"a", "b">> >>
    /\ chunkQ[1] = << <<"a", "b", " ">>, None >>
    /\ textQ[1] = << <<"b">> >>

\* C16: on one connection every TextUnit the send loop takes from its queue
\* (the head: queue order) is transmitted as one text frame with
\* try_trigger_generation false; the end marker is transmitted as one
\* empty-text frame, with which the loop stops; no frame is sent without an
\* item taken, and none after the empty-text frame.
C16_OneFramePerUnit ==
    [][ \A a \in Attempts :
            LET q == bind[a].cq
                takes == /\ task[a]["send_text"] = "run"
                         /\ Len(chunkQ'[q]) < Len(chunkQ[q])
            IN /\ IF task[a]["send_text"] = "run" /\ takes
                  THEN /\ chunkQ'[q] = Tail(chunkQ[q])
                       /\ ws[a] = "open" =>
                              IF Head(chunkQ[q]) = None
                              THEN /\ wsIn'[a] = Append(wsIn[a],
                                          [text |-> <<>>, try_trigger_generation |-> "absent"])
                                   /\ task'[a]["send_text"] = "done"
                              ELSE /\ wsIn'[a] = Append(wsIn[a],
                                          [text |-> Head(chunkQ[q]),
                                           try_trigger_generation |-> "false"])
                                   /\ task'[a]["send_text"] = "run"
                  ELSE wsIn'[a] = wsIn[a]
               /\ HasEos(a) => wsIn'[a] = wsIn[a] ]_vars

\* A connection on which a TextUnit and then the empty-text frame were sent,
\* and the send loop has stopped.
C16_Witness ==
    \E a \in Attempts :
        /\ task[a]["send_text"] = "done"
        /\ Len(wsIn[a]) = 2
        /\ wsIn[a][1].text # <<>>
        /\ wsIn[a][2].text = <<>>

\* How many end markers an audio queue holds.
AudioMarkers(q) == Len(SelectSeq(q, LAMBDA c : c = AudioNone))

\* C17: a frame without audio puts no chunk on the audio queue; the end
\* marker is put when, and only when, a frame with the final flag is read,
\* behind the audio of that frame and of every frame before it; it is put
\* once, and the loop reads no frame afterwards.
C17_MarkerOnceAfterAudio ==
    [][ LET reads == task[1]["listen"] = "run" /\ wsOut[1] # <<>>
            data == Head(wsOut[1])
        IN /\ reads =>
                  /\ wsOut'[1] = Tail(wsOut[1])
                  /\ data.audio = AudioNone /\ ~data.isFinal => audioQ'[1] = audioQ[1]
                  /\ data.audio # AudioNone /\ ~data.isFinal =>
                         audioQ'[1] = Append(audioQ[1], data.audio)
                  /\ data.audio = AudioNone /\ data.isFinal =>
                         audioQ'[1] = Append(audioQ[1], AudioNone)
                  /\ data.audio # AudioNone /\ data.isFinal =>
                         audioQ'[1] = audioQ[1] \o <<data.audio, AudioNone>>
                  /\ task'[1]["listen"] = IF data.isFinal THEN "done" ELSE "run"
           /\ AudioMarkers(audioQ'[1]) = IF task'[1]["listen"] = "done" THEN 1 ELSE 0
           /\ task'[1]["listen"] = "done" =>
                  audioQ'[1][Len(audioQ'[1])] = AudioNone
           /\ task[1]["listen"] = "done" =>
                  /\ wsOut' = wsOut
                  /\ audioQ' = audioQ ]_vars

\* The loop has stopped on a final third frame that carried audio, after a
\* second frame without audio: the queue holds the chunks of frames 1 and 3,
\* then the marker.
C17_Witness ==
    /\ task[1]["listen"] = "done"
    /\ audioQ[1] = << <<1, 1>>, <<1, 3>>, AudioNone >>
    /\ wsOut[1] = <<>>

\* The handler has run on the ledgers of attempt 1: it returned the residual
\* that is now chars_to_send, or the alignment raised.
Returned == pc = "connect" /\ cur = 2

Raised == status = "alignment_error"

\* The confirmed characters, the leading artifact removed.
ConfirmedContent == Drop(recvList[1], 1)

\* C18 as amended: when confirmed, the artifact removed, equals element for
\* element sent as the provider voices it (every character put through the
\* substitution table, line breaks left out), get_remaining_chars_to_send
\* returns the empty list and does not raise.
C18_AllVoicedGivesEmpty ==
    ((Returned \/ Raised) /\ ConfirmedContent = Voiced(charList[1])) =>
        /\ Returned
        /\ charList[2] = <<>>

\* C18 as claimed: when confirmed, the artifact removed, equals sent element
\* for element, line breaks and characters of the substitution table
\* included, get_remaining_chars_to_send returns the empty list and does not
\* raise.
C18_AllConfirmedGivesEmpty ==
    ((Returned \/ Raised) /\ ConfirmedContent = charList[1]) =>
        /\ Returned
        /\ charList[2] = <<>>

\* The handler returned the empty residual for a sent text with a line break
\* and a typographic quote, confirmed as the provider voices them.
C18_Witness ==
    /\ Returned
    /\ charList[1] = <<"a", "\n", "u2019">>
    /\ recvList[1] = <<" ", "a", "'">>
    /\ charList[2] = <<>>

\* The index in sent of its n-th character that is not a line break.
VoicedIndex(sent, n) ==
    CHOOSE i \in 1..Len(sent) :
        /\ sent[i] # "\n"
        /\ Cardinality({k \in 1..i : sent[k] # "\n"}) = n

\* C19 as amended: when confirmed, the artifact removed, is a strict prefix
\* of sent as the provider voices it, get_remaining_chars_to_send returns
\* the suffix of sent that starts at the first character not yet voiced
\* (the line breaks before that character are not part of it).
C19_VoicedPrefixGivesSuffix ==
    LET sent == charList[1]
        m == Len(ConfirmedContent)
    IN ((Returned \/ Raised) /\ IsPrefix(ConfirmedContent, Voiced(sent))
                             /\ m < Len(Voiced(sent))) =>
           /\ Returned
           /\ charList[2] = Drop(sent, VoicedIndex(sent, m + 1) - 1)

\* C19 as claimed: when confirmed, the artifact removed, is a strict prefix
\* of sent, get_remaining_chars_to_send returns the suffix of sent that
\* starts at index len(confirmed).
C19_PrefixGivesSuffix ==
    LET sent == charList[1]
        m == Len(ConfirmedContent)
    IN ((Returned \/ Raised) /\ IsPrefix(ConfirmedContent, sent) /\ m < Len(sent)) =>
           /\ Returned
           /\ charList[2] = Drop(sent, m)

\* The handler returned the suffix after the one voiced character, without
\* the line break that follows it.
C19_Witness ==
    /\ Returned
    /\ charList[1] = <<"a", "\n", "b">>
    /\ recvList[1] = <<" ", "a">>
    /\ charList[2] = <<"b">>

\* The part of C20 that holds: when one or two extra characters that do not
\* occur in sent stand at one place in confirmed, so that the awaited
\* character is first found one or two places past the cursor and every
\* character after it is shifted alike, the tracker accepts it without error
\* and the residual is the one of the confirmed sequence without the extra
\* characters.
InsertionAbsorbed ==
    LET sent == charList[1]
    IN \A u \in Prefixes(Voiced(sent)) :
           ((Returned \/ Raised) /\ ConfirmedContent \in InsertedOf(u)) =>
               /\ Returned
               /\ charList[2] = get_remaining_chars_to_send(sent, PrimingText \o u)

\* C20: a single confirmed character displaced by one or two places relative
\* to sent (found one or two places past the cursor) is accepted without
\* error and gives the same resume point as the undisplaced confirmed
\* sequence.
C20_DisplacementAbsorbed ==
    LET sent == charList[1]
    IN \A u \in Prefixes(Voiced(sent)) :
           ((Returned \/ Raised) /\ ConfirmedContent \in MovedOf(u)) =>
               /\ Returned
               /\ charList[2] = get_remaining_chars_to_send(sent, PrimingText \o u)

\* ---- the scan of the alignment function, stated position by position
\* The 0-based position of the first element of recv equal to char at or
\* after position j, or -1 when there is none.
FirstOcc(recv, char, j) ==
    LET S == {m \in j..(Len(recv) - 1) : recv[m + 1] = char}
    IN IF S = {} THEN -1 ELSE CHOOSE m \in S : \A n \in S : m <= n

\* The cursor j when the scan comes to index i (0-based) of the normalised
\* sent text fmt, every earlier index having been matched or skipped.
RECURSIVE CursorBefore(_, _, _)
CursorBefore(fmt, recv, i) ==
    IF i = 0 THEN 0
    ELSE LET j == CursorBefore(fmt, recv, i - 1)
         IN IF fmt[i] = "\n" THEN j ELSE FirstOcc(recv, fmt[i], j) + 1

\* At index i the scan finds the resume point: the character is no line
\* break and the cursor is at the end of confirmed, or the character does
\* not occur at or after the cursor.
HaltsAt(fmt, recv, i) ==
    LET j == CursorBefore(fmt, recv, i)
    IN /\ fmt[i + 1] # "\n"
       /\ j >= Len(recv) \/ FirstOcc(recv, fmt[i + 1], j) = -1

\* At index i the first occurrence of the character at or after the cursor
\* j lies at j+3 or further.
FarAt(fmt, recv, i) ==
    LET j == CursorBefore(fmt, recv, i)
    IN /\ fmt[i + 1] # "\n"
       /\ j < Len(recv)
       /\ FirstOcc(recv, fmt[i + 1], j) >= j + 3

\* The indices at which the scan stops, and the first of them (-1: none, the
\* scan reaches the end of sent).
StopsAt(fmt, recv) ==
    {i \in 0..(Len(fmt) - 1) : HaltsAt(fmt, recv, i) \/ FarAt(fmt, recv, i)}

FirstStop(fmt, recv) ==
    LET S == StopsAt(fmt, recv)
    IN IF S = {} THEN -1 ELSE CHOOSE i \in S : \A k \in S : i <= k

\* The scan of these ledgers ends on a character found beyond the tolerance.
EndsFar(sent, received) ==
    LET fmt == [k \in 1..Len(sent) |-> Spoken(sent[k])]
        recv == Drop(received, 1)
        i == FirstStop(fmt, recv)
    IN i # -1 /\ FarAt(fmt, recv, i)

\* The step in which the except clause of line 400 runs.
HandlerStep ==
    /\ pc \in {"gather", "except"}
    /\ status = "running"
    /\ exc = "cc"
    /\ pc' # pc \/ cur' # cur \/ status' # status

\* C21: the handler raises exactly when the scan ends on a character whose
\* first occurrence at or after the cursor j lies at j+3 or further; the
\* failure ends the utterance: the loop is left in the same pass, the
\* connection of the attempt is closed and none is open, no queue and no
\* ledger is replaced or written, and from then on nothing happens: no
\* further connection attempt is made.
C21_AlignmentFailureFatal ==
    [][ /\ HandlerStep =>
               (EndsFar(charList[chars_to_send], recvList[chars_received])
                    <=> status' = "alignment_error")
        /\ (HandlerStep /\ status' = "alignment_error") =>
               /\ pc' = "done"
               /\ cur' = cur
               /\ ws'[cur] = "closed"
               /\ \A a \in Attempts : ws'[a] # "open"
               /\ textQ' = textQ /\ text_queue' = text_queue
               /\ charList' = charList /\ chars_to_send' = chars_to_send
        /\ status = "alignment_error" => UNCHANGED vars ]_vars

\* The alignment raised in the first pass, on a sent text whose leading
\* space the provider confirmed three places late; no second attempt exists.
C21_Witness ==
    /\ status = "alignment_error"
    /\ cur = 1
    /\ charList[1] = <<" ", "a", "a", "a">>
    /\ recvList[1] = <<" ", "a", "a", "a", " ">>
    /\ ws[1] = "closed"
    /\ ws[2] = "none"
    /\ textQ[2] = <<>>

\* sent without its line breaks.
WithoutLineBreaks(s) == SelectSeq(s, LAMBDA c : c # "\n")

\* C22: a line break in sent never moves the cursor and is never the resume
\* point: for every index of sent that holds a line break and that the scan
\* comes to, the scan of sent up to and including that index ends with the
\* cursor the scan of sent up to that index ended with; the residual never
\* starts with a line break; and the handler ends as it ends on sent
\* without its line breaks, with the same residual, line breaks aside.
C22_LineBreakKeepsCursor ==
    (Returned \/ Raised) =>
        LET sent == charList[1]
            fmt == chars_to_send_formatted(sent)
            recv == chars_received_formatted(recvList[1])
            bare == AlignScan(WithoutLineBreaks(sent), recvList[1])
        IN /\ \A i \in 1..Len(sent) :
                  sent[i] = "\n" =>
                      LET before == Scan(SubSeq(fmt, 1, i - 1), recv, 0, 0)
                          after == Scan(SubSeq(fmt, 1, i), recv, 0, 0)
                      IN before.kind = "all" =>
                             after.kind = "all" /\ after.j = before.j
           /\ Raised <=> bare.kind = "raise"
           /\ Returned =>
                  /\ charList[2] # <<>> => charList[2][1] # "\n"
                  /\ WithoutLineBreaks(charList[2]) =
                         (IF bare.kind = "all" THEN <<>>
                          ELSE Drop(WithoutLineBreaks(sent), bare.i))

\* The handler returned the character behind two line breaks as the
\* residual, for a confirmed sequence that holds a line break.
C22_Witness ==
    /\ Returned
    /\ charList[1] = <<"\n", "\n", "b">>
    /\ recvList[1] = <<" ", "\n">>
    /\ charList[2] = <<"b">>

\* The handler has run on the whole sentence and on the artifact followed by
\* the first n characters of the sentence.
OnSentence(n) ==
    /\ Returned \/ Raised
    /\ charList[1] = ScenarioText
    /\ recvList[1] = PrimingText \o SubSeq(ScenarioText, 1, n)

\* C23 as amended: with sent the characters of "Hello world " and confirmed
\* those of " Hello", get_remaining_chars_to_send resumes at index 5, the
\* space behind "Hello", and returns the characters of " world ".
C23_HelloResumesAtSpace ==
    OnSentence(5) =>
        /\ Returned
        /\ charList[2] = Drop(ScenarioText, 5)
        /\ charList[2] = <<" ", "w", "o", "r", "l", "d", " ">>

\* C23 as claimed: with sent the characters of "Hello world " and confirmed
\* those of " Hello", get_remaining_chars_to_send resumes at index 6 and
\* returns the characters of "world ".
C23_HelloResumesAtWorld ==
    OnSentence(5) =>
        /\ Returned
        /\ charList[2] = Drop(ScenarioText, 6)
        /\ charList[2] = <<"w", "o", "r", "l", "d", " ">>

\* The handler has returned for the scenario of C23, and the residual and
\* its end marker are on the new text queue.
C23_Witness ==
    /\ OnSentence(5)
    /\ Returned
    /\ Len(charList[2]) = 7
    /\ textQ[2] = <<charList[2], None>>

\* C24 as amended: with sent the characters of "Hello world " and confirmed
\* those of " Hello world", get_remaining_chars_to_send returns the one
\* character not confirmed, the trailing space.
C24_HelloWorldLeavesSpace ==
    OnSentence(11) =>
        /\ Returned
        /\ charList[2] = <<" ">>

\* C24 as claimed: with sent the characters of "Hello world " and confirmed
\* those of " Hello world", get_remaining_chars_to_send returns the empty
\* list.
C24_HelloWorldLeavesNothing ==
    OnSentence(11) =>
        /\ Returned
        /\ charList[2] = <<>>

\* The handler has returned for the scenario of C24, and the one-character
\* residual and its end marker are on the new text queue.
C24_Witness ==
    /\ OnSentence(11)
    /\ Returned
    /\ Len(charList[2]) = 1
    /\ textQ[2] = << <<" ">>, None >>

\* The 0-based indices of sent that hold the typographic right single quote.
QuotesOf(sent) == {p \in 0..(Len(sent) - 1) : sent[p + 1] = "u2019"}

\* The handler has run on a sent text with a typographic quote and on a
\* confirmed sequence that has a plain apostrophe at every position of a
\* quote and is equal to sent at every other position.
OnQuoted ==
    /\ Returned \/ Raised
    /\ QuotesOf(charList[1]) # {}
    /\ ConfirmedContent = QuotePaired(charList[1])

\* Every quote of sent is an in-order match: the scan comes to it with the
\* cursor at its own position, where confirmed has the apostrophe.
QuotesInOrder ==
    LET sent == charList[1]
        fmt == [k \in 1..Len(sent) |-> Spoken(sent[k])]
        stop == FirstStop(fmt, ConfirmedContent)
    IN \A p \in QuotesOf(sent) :
           /\ stop = -1 \/ stop > p
           /\ CursorBefore(fmt, ConfirmedContent, p) = p

\* Every quote of sent that the scan comes to is matched at the cursor.
QuotesReachedInOrder ==
    LET sent == charList[1]
        fmt == [k \in 1..Len(sent) |-> Spoken(sent[k])]
        stop == FirstStop(fmt, ConfirmedContent)
    IN \A p \in QuotesOf(sent) :
           (stop = -1 \/ stop >= p) => CursorBefore(fmt, ConfirmedContent, p) = p

\* A character that is no line break and that the substitution table leaves
\* as it is.
IsPlain(char) == char # "\n" /\ Spoken(char) = char

\* C25 as amended: for every sent whose characters other than the
\* typographic right single quotes are neither line breaks nor characters of
\* the substitution table, and a confirmed sequence with a plain apostrophe
\* at the position of every quote and equal elsewhere, every pair is an
\* in-order match at j, no alignment error is raised and nothing remains to
\* resend, so that no quote is the resume point.
C25_QuoteMatchesApostrophe ==
    (OnQuoted /\ \A k \in 1..Len(charList[1]) :
                     charList[1][k] = "u2019" \/ IsPlain(charList[1][k])) =>
        /\ Returned
        /\ QuotesInOrder
        /\ charList[2] = <<>>

\* C25 as claimed: for every sent with a typographic right single quote and
\* a confirmed sequence with a plain apostrophe at the same position and
\* equal elsewhere, the pair is an in-order match at j (when the scan comes
\* to it), no alignment error is raised and the quote is not the resume
\* point.
C25_QuoteAlwaysMatches ==
    OnQuoted =>
        /\ Returned
        /\ QuotesReachedInOrder
        /\ charList[2] = <<>> \/ charList[2][1] # "u2019"

\* The handler returned the empty residual for a sent text with two
\* typographic quotes, confirmed with plain apostrophes.
C25_Witness ==
    /\ Returned
    /\ charList[1] = <<"a", "u2019", "a", "u2019">>
    /\ recvList[1] = <<" ", "a", "'", "a", "'">>
    /\ charList[2] = <<>>

\* C26: the sent ledger of the utterance, the list the orchestrator's
\* chars_to_send names, is append-only: in every step, the reconnect step
\* included, its new value has its old value as a prefix.
C26_SentAppendOnly ==
    [][ IsPrefix(charList[chars_to_send], charList'[chars_to_send']) ]_vars

\* C27: when the handler returns, the residual is empty exactly when the
\* scan reaches the end of sent without stopping; otherwise it is the suffix
\* of sent as written, not normalised, from the resume point on, the resume
\* point being the first index that holds no line break and at which the
\* cursor has reached the end of confirmed or the normalised character does
\* not occur in confirmed at or after the cursor.
C27_ResultIsSuffixFromResumePoint ==
    Returned =>
        LET sent == charList[1]
            fmt == [k \in 1..Len(sent) |-> Spoken(sent[k])]
            stop == FirstStop(fmt, ConfirmedContent)
        IN /\ charList[2] = <<>> <=> stop = -1
           /\ stop # -1 =>
                  /\ HaltsAt(fmt, ConfirmedContent, stop)
                  /\ sent[stop + 1] # "\n"
                  /\ \A i \in 0..(stop - 1) : ~HaltsAt(fmt, ConfirmedContent, i)
                  /\ charList[2] = Drop(sent, stop)

\* The handler returned the typographic quote as written, the resume point
\* being behind the line break that follows the one confirmed character.
C27_Witness ==
    /\ Returned
    /\ charList[1] = <<"a", "\n", "u2019">>
    /\ recvList[1] = <<" ", "a">>
    /\ charList[2] = <<"u2019">>

\* The alignment characters of the frames the receive loop of attempt a has
\* read from its connection, in arrival order.
ReadChars(a) ==
    Flatten([n \in 1..(voiced[a] - Len(wsOut[a])) |-> Answer(a, n).chars])

\* The confirmed ledger of the orchestrator holds what the receive loop of
\* the current attempt has read, and nothing else.
ConfirmedIsOfCurrentAttempt == recvList[chars_received] = ReadChars(cur)

\* The confirmed ledger is empty when an attempt starts.
ConfirmedEmptyAtStart == pc = "connect" => recvList[chars_received] = <<>>

\* The receive loop of attempt a will still append to its confirmed list: it
\* is running and a frame with alignment characters waits to be read.
StillAppending(a) ==
    /\ Running(a, "listen")
    /\ \E k \in 1..Len(wsOut[a]) : wsOut[a][k].chars # <<>>

\* The alignment function is called only when the receive loop of the
\* attempt appends no more.
ReadAfterReceiveLoopEnded ==
    [][ HandlerStep => ~StillAppending(cur) ]_vars

\* C28: the confirmed ledger is empty at the start of every attempt and is
\* at every instant the concatenation, in arrival order, of the alignment
\* characters received on the current attempt's connection only; and the
\* alignment function reads it only when that attempt's receive loop is no
\* longer appending to it.
C28_ConfirmedOwnedByReceiveLoop ==
    [][ /\ ConfirmedEmptyAtStart
        /\ ConfirmedIsOfCurrentAttempt
        /\ HandlerStep => ~StillAppending(cur) ]_vars

\* C29: whenever an attempt ends with the connection-closed condition and
\* the alignment succeeds, whatever the number of the attempt and whether or
\* not any text remains, the orchestrator goes on to the next attempt; and
\* the session ends only when an attempt has completed or an error that is
\* not connection-closed (the alignment failure among them) has occurred.
C29_RetriesUnbounded ==
    [][ /\ (HandlerStep /\ ~EndsFar(charList[chars_to_send],
                                    recvList[chars_received])) =>
               /\ status' = "running"
               /\ pc' = "connect"
               /\ cur' = cur + 1
        /\ pc' = "done" =>
               \/ status' = "completed"
               \/ status' = "alignment_error"
               \/ status' = "failed" /\ exc' \notin {"none", "cc"} ]_vars

\* A TextUnit: one or more characters that are not spaces, then one space.
IsTextUnit(u) ==
    /\ Len(u) >= 2
    /\ u[Len(u)] = " "
    /\ \A k \in 1..(Len(u) - 1) : u[k] # " "

\* C30: every item on the chunker's output queue other than the end marker
\* is a TextUnit: never the empty string, never a lone space, never a unit
\* with a space anywhere but at its end; and the buffer never holds a space.
C30_EmitsOnlyTextUnits ==
    /\ \A k \in 1..Len(chunkQ[1]) :
           chunkQ[1][k] # None => IsTextUnit(chunkQ[1][k])
    /\ \A k \in 1..Len(buffer[1]) : buffer[1][k] # " "

\* The chunker has ended on fragments with a leading space and a fragment of
\* spaces only: one unit, then the marker.
C30_Witness ==
    /\ task[1]["text_chunker"] = "done"
    /\ script = << <<" ", "a">>, <<" ", " ">> >>
    /\ chunkQ[1] = << <<"a", " ">>, None >>

\* The characters whose replacement in the substitution table is longer than
\* one character.
IsMulti(char) == char \in {"u2026", "u00A3", "u20AC"}

\* The 1-based positions of sent that hold such a character.
MultiOf(sent) == {p \in 1..Len(sent) : IsMulti(sent[p])}

\* C31: a sent character with a multi-character replacement is never
\* matched: when the scan comes to the first such character of sent, that
\* index is the resume point, also when confirmed holds the replacement
\* spelled out character by character; so whenever the handler returns for
\* a sent text with such a character, the residual starts at or before the
\* first of them.
C31_MultiCharNeverMatched ==
    ((Returned \/ Raised) /\ MultiOf(charList[1]) # {}) =>
        LET sent == charList[1]
            p == CHOOSE q \in MultiOf(sent) : \A r \in MultiOf(sent) : q <= r
            before == [k \in 1..(p - 1) |-> Spoken(sent[k])]
            comes == FirstStop(before, ConfirmedContent) = -1
        IN /\ comes => Returned /\ charList[2] = Drop(sent, p - 1)
           /\ Returned => Len(charList[2]) >= Len(sent) - (p - 1)

\* The handler returned the ellipsis and what follows it as the residual
\* although confirmed holds the three full stops and the character behind
\* them.
C31_Witness ==
    /\ Returned
    /\ charList[1] = <<"a", "u2026", "a">>
    /\ recvList[1] = <<" ", "a", ".", ".", ".", "a">>
    /\ charList[2] = <<"u2026", "a">>

\* The positions at which a maximal run of non-space characters of text
\* starts, and the position at which the run that starts at i ends.
RunStarts(text) ==
    {i \in 1..Len(text) : text[i] # " " /\ (i = 1 \/ text[i - 1] = " ")}

RunEnd(text, i) ==
    CHOOSE e \in i..Len(text) :
        /\ \A k \in i..e : text[k] # " "
        /\ e = Len(text) \/ text[e + 1] = " "

\* One TextUnit per maximal run of non-space characters of text, in order.
RunUnits(text) ==
    LET S == RunStarts(text)
        nth(n) == CHOOSE i \in S : Cardinality({t \in S : t <= i}) = n
    IN [n \in 1..Cardinality(S) |->
            SubSeq(text, nth(n), RunEnd(text, nth(n))) \o <<" ">>]

\* C32: the TextUnits the chunker has emitted when it ends depend on the
\* concatenation of the fragments only: they are one unit per maximal run of
\* non-space characters of the concatenation, in order, and so the units the
\* chunker emits for the concatenation handed over as one fragment.
C32_IndependentOfFragmentation ==
    task[1]["text_chunker"] = "done" =>
        /\ EmittedUnits = RunUnits(Flatten(script))
        /\ EmittedUnits = UnitsOf(Flatten(script))

\* The chunker has ended on a word split over two fragments and emitted it
\* as one unit.
C32_Witness ==
    /\ task[1]["text_chunker"] = "done"
    /\ script = << <<"b">>, <<"a", " ">> >>
    /\ EmittedUnits = << <<"b", "a", " ">> >>

====
